---- MODULE Spec2Model ----
(***************************************************************************)
(* Declaration lowering of regast: DeclarationParser                       *)
(* (regast/parsing/declarations.py) and Struct                             *)
(* (regast/core/declarations/struct.py).                                   *)
(*                                                                         *)
(* A CST node is a record [type, children, text].  Every parser loop is    *)
(* modelled as one operator per loop iteration (..._child) that maps the   *)
(* traversal state [status, err, val] and the child to the next traversal  *)
(* state, and a recursive operator that runs the loop to its end.  The     *)
(* state machine runs one parser on one input node, one child per step.    *)
(***************************************************************************)
EXTENDS Integers, Sequences, FiniteSets, TLC

\* ctx: the parser that runs; node: its input node; pos: the index of the
\* child the loop is at; st: the traversal state (the entity under
\* construction, or the exception raised); frame: the nested loop of a closure
\* (parse_inheritance_specifier, parse_contract_body) when one is running;
\* self, other: the operands of Struct.__eq__
VARIABLES ctx, node, pos, st, frame, self, other, env

vars == <<ctx, node, pos, st, frame, self, other, env>>

\* The classes regast.core and the parsers regast.parsing.expressions, .types
\* and .variables are imported by declarations.py (lines 2-19) and are not
\* part of the sources at hand. Where the outcome of a line depends on how
\* one of them is written, env fixes one of the possible ways for a run:
\*   parse_user_defined_type  ExpressionParser has such a method (line 336)
\*   arguments_live           InheritanceSpecifier.arguments returns the list
\*                            itself and not a copy of it (line 115)
\*   identifier_hash          Identifier defines __hash__ with its __eq__
\*                            (lines 261 and 285)
Environments ==
    [parse_user_defined_type : BOOLEAN, arguments_live : BOOLEAN,
     identifier_hash : BOOLEAN]

(***************************************************************************)
(* Bounds of the model.                                                    *)
(***************************************************************************)
MaxFunctionChildren == 3
MaxBodyMembers == 3
MaxArguments == 3
MaxContractChildren == 3
MaxTopLevel == 3
MaxImports == 3
MaxImportTokens == 4
MaxMembers == 2

(***************************************************************************)
(* CST nodes (TreeSitterNode): type tag, ordered children, source text.    *)
(***************************************************************************)
Node(type, children, text) == [type |-> type, children |-> children, text |-> text]

\* a keyword or punctuation token: a leaf whose text is its tag
Tok(t) == Node(t, <<>>, t)

\* a leaf with its own text
Leaf(type, text) == Node(type, <<>>, text)

\* Python's None
None == [kind |-> "None"]

\* `not x` is False for every object that is not None (no __bool__/__len__)
Truthy(v) == v # None

\* TreeSitterNode == str: the node class defines no comparison with strings,
\* so Python falls back to identity and the comparison is False
TreeSitterNode_eq(n, s) == FALSE

(***************************************************************************)
(* Traversal state and the exceptions the code raises.                     *)
(***************************************************************************)
NoErr == [kind |-> "none"]

Running(val) == [status |-> "running", err |-> NoErr, val |-> val]

Raise(s, e) == [s EXCEPT !.status = "error", !.err = e]

ParsingException(msg, tag) == [kind |-> "ParsingException", msg |-> msg, tag |-> tag]

AssertionError == [kind |-> "AssertionError"]

TypeError == [kind |-> "TypeError"]

AttributeError == [kind |-> "AttributeError"]

UnboundLocalError == [kind |-> "UnboundLocalError"]

ValueError == [kind |-> "ValueError"]

IndexError == [kind |-> "IndexError"]

Append1(s, field, e) == [s EXCEPT !.val[field] = Append(@, e)]

Set1(s, field, e) == [s EXCEPT !.val[field] = e]

(***************************************************************************)
(* Collaborators: expression, type and variable resolvers.                 *)
(***************************************************************************)
parse_identifier(n) == [kind |-> "Identifier", name |-> n.text]

parse_expression(n) == [kind |-> "Expression", text |-> n.text]

parse_struct_arguments(n) == [kind |-> "StructArguments", text |-> n.text]

parse_user_defined_type(n) == [kind |-> "UserDefinedType", name |-> n.text]

\* the static methods of ExpressionParser; parse_user_defined_type is the
\* name of a method of TypeParser (line 108)
ExpressionParser_has(method) ==
    \/ method \in {"parse_identifier", "parse_expression", "parse_struct_arguments"}
    \/ method = "parse_user_defined_type" /\ env.parse_user_defined_type

parse_parameter(n) == [kind |-> "Parameter", text |-> n.text]

parse_state_variable_declaration(n) == [kind |-> "StateVariable", text |-> n.text]

parse_constant_variable_declaration(n) == [kind |-> "Constant", text |-> n.text]

\* a Python str held in a field that may also be None
Str(t) == [kind |-> "str", value |-> t]

\* Visibility(text), StateMutability(text): the enum member with that value
EnumValue(enum, text) == [kind |-> enum, value |-> text]

VisibilityValues == {"external", "public", "internal", "private"}

StateMutabilityValues == {"pure", "view", "payable", "nonpayable"}

(***************************************************************************)
(* FUNCTIONS: DeclarationParser.parse_functions                            *)
(***************************************************************************)
FunctionNodeTypes ==
    {"function_definition", "constructor_definition", "modifier_definition",
     "fallback_receive_definition"}

\* Function(node), Constructor(node), ...: a callable with nothing set yet
Callable(kind, n) ==
    [kind |-> kind, src |-> n.text, name |-> None, parameters |-> <<>>,
     visibility |-> None, mutability |-> None, virtual |-> FALSE]

\* line 361 reads node.children[0]: a definition without children has none
NoFirstChild(n) == n.type = "fallback_receive_definition" /\ Len(n.children) = 0

\* lines 354-363: the variant is chosen before the traversal
FunctionVariant(n) ==
    CASE n.type = "constructor_definition" -> "Constructor"
      [] n.type = "function_definition" -> "Function"
      [] n.type = "fallback_receive_definition" ->
            IF NoFirstChild(n) THEN IndexError
            ELSE IF TreeSitterNode_eq(n.children[1], "receive")
            THEN "ReceiveFunction" ELSE "FallbackFunction"
      [] n.type = "modifier_definition" -> "Modifier"

parse_functions_init(n) ==
    IF NoFirstChild(n) THEN Raise(Running(None), FunctionVariant(n))
    ELSE Running(Callable(FunctionVariant(n), n))

FunctionIgnored ==
    {"function", "constructor", "modifier", "fallback", "receive", "(", ")", ","}

\* the stubs parse_modifier_invocation, parse_override_specifier,
\* parse_return_type_definition, parse_function_body: `pass`
FunctionStubbed ==
    {"modifier_invocation", "override_specifier", "return_type_definition",
     "function_body"}

FunctionRecognized ==
    {"identifier", "parameter", "visibility", "internal", "public",
     "state_mutability", "payable", "virtual"} \cup FunctionStubbed

\* lines 390-392 without the assertion of line 391
FunctionVisibilityOverwrite(s, child_node) ==
    IF child_node.text \notin VisibilityValues THEN Raise(s, ValueError)
    ELSE Set1(s, "visibility", EnumValue("Visibility", child_node.text))

\* lines 390-392
FunctionVisibility(s, child_node) ==
    IF Truthy(s.val.visibility) THEN Raise(s, AssertionError)
    ELSE IF child_node.text \notin VisibilityValues THEN Raise(s, ValueError)
    ELSE Set1(s, "visibility", EnumValue("Visibility", child_node.text))

\* lines 394-396
FunctionMutability(s, child_node) ==
    IF Truthy(s.val.mutability) THEN Raise(s, AssertionError)
    ELSE IF child_node.text \notin StateMutabilityValues THEN Raise(s, ValueError)
    ELSE Set1(s, "mutability", EnumValue("StateMutability", child_node.text))

\* lines 413-414
FunctionOther(s, child_node) ==
    Raise(s, ParsingException("Unknown tree-sitter node in function_definition",
                              child_node.type))

\* one iteration of the loop at lines 377-414
parse_functions_child(s, child_node) ==
    LET t == child_node.type IN
    CASE t = "identifier" ->
            IF Truthy(s.val.name) THEN Raise(s, AssertionError)
            ELSE Set1(s, "name", parse_identifier(child_node))
      [] t = "parameter" -> Append1(s, "parameters", parse_parameter(child_node))
      [] t \in {"visibility", "internal", "public"} -> FunctionVisibility(s, child_node)
      [] t \in {"state_mutability", "payable"} -> FunctionMutability(s, child_node)
      [] t = "virtual" -> Set1(s, "virtual", TRUE)
      [] t \in FunctionStubbed -> s
      [] t \in FunctionIgnored -> s
      [] OTHER -> FunctionOther(s, child_node)

RECURSIVE parse_functions_loop(_, _, _)
parse_functions_loop(s, children, i) ==
    IF s.status # "running" \/ i > Len(children) THEN s
    ELSE parse_functions_loop(parse_functions_child(s, children[i]), children, i + 1)

\* the whole call: the traversal ends "ok" with the callable, or "error"
Finish(s) == IF s.status = "running" THEN [s EXCEPT !.status = "ok"] ELSE s

parse_functions(n) ==
    IF n.type \notin FunctionNodeTypes THEN Raise(Running(None), AssertionError)
    ELSE Finish(parse_functions_loop(parse_functions_init(n), n.children, 1))

(***************************************************************************)
(* OTHERS: the leaf declaration parsers of lines 419-437 are `pass`; each  *)
(* returns None.                                                           *)
(***************************************************************************)
parse_error_declaration(n) == None

parse_enum_declaration(n) == None

parse_struct_declaration(n) == None

parse_event_definition(n) == None

parse_user_defined_type_definition(n) == None

(***************************************************************************)
(* DIRECTIVES: parse_using_directive, lines 327-347                        *)
(***************************************************************************)
parse_using_directive(n) ==
    LET c == n.children
        using_directive == [kind |-> "UsingDirective", src |-> n.text,
                            libraries |-> <<>>, any_type |-> FALSE, type |-> None]
    IN
    IF n.type # "using_directive" THEN Raise(Running(None), AssertionError)
    ELSE IF Len(c) # 4 THEN Raise(Running(None), ValueError)
    ELSE IF ~(c[1].type = "using" /\ c[2].type = "type_alias" /\ c[3].type = "for")
         THEN Raise(Running(None), AssertionError)
    ELSE IF ~ExpressionParser_has("parse_user_defined_type")
         THEN Raise(Running(None), AttributeError)
    ELSE LET u == [using_directive EXCEPT
                       !.libraries = <<parse_user_defined_type(c[2])>>] IN
         CASE c[4].type = "any_source_type" ->
                 Finish(Running([u EXCEPT !.any_type = TRUE]))
           [] c[4].type = "type_name" ->
                 Finish(Running([u EXCEPT !.type = [kind |-> "Type", text |-> c[4].text]]))
           [] OTHER ->
                 Raise(Running(None),
                       ParsingException("Unknwon source type for using_directive",
                                        c[4].type))

(***************************************************************************)
(* CONTRACTS: DeclarationParser.parse_contracts                            *)
(***************************************************************************)
ContractNodeTypes ==
    {"contract_declaration", "interface_declaration", "library_declaration"}

\* lines 93-100
ContractVariant(n) ==
    CASE n.type = "contract_declaration" -> "Contract"
      [] n.type = "interface_declaration" -> "Interface"
      [] n.type = "library_declaration" -> "Library"

\* Contract(node), Interface(node), Library(node): nothing set yet
ContractLike(kind, n) ==
    [kind |-> kind, src |-> n.text, name |-> None, abstract |-> FALSE,
     inheritance_specifiers |-> <<>>, functions |-> <<>>, modifiers |-> <<>>,
     custom_errors |-> <<>>, state_variables |-> <<>>, structs |-> <<>>,
     enums |-> <<>>, events |-> <<>>, using_directives |-> <<>>,
     constructor |-> None, fallback_function |-> None,
     receive_function |-> None, type_definitions |-> <<>>]

parse_contracts_init(n) == Running(ContractLike(ContractVariant(n), n))

(* ---- parse_inheritance_specifier, lines 102-130 ---- *)

InheritanceSpecifier(n) ==
    [kind |-> "InheritanceSpecifier", src |-> n.text, name |-> None,
     arguments |-> <<>>, struct_arguments |-> None]

\* len(TreeSitterNode): the node class defines no __len__
TreeSitterNode_len(n) == None

ArgumentIgnored == {"(", ")", ","}

ArgumentRecognized == {"call_argument"}

\* lines 127-128
ArgumentOther(s, child_node) ==
    Raise(s, ParsingException("Unknown tree-sitter node type for call_arguments",
                              child_node.type))

\* line 115: inheritance_specifier.arguments.append(expression). When the
\* property returns a copy of the list (as Struct.members does, struct.py
\* line 24) the append lands on the copy and the specifier keeps its arguments
AppendToProperty(s, field, e) ==
    IF env.arguments_live THEN Append1(s, field, e) ELSE s

\* lines 113-122: the two guarded call_argument cases, tried in order
CallArgument(s, child_node) ==
    IF Len(child_node.children) = 1
    THEN AppendToProperty(s, "arguments", parse_expression(child_node))
    ELSE IF TreeSitterNode_len(child_node) = None THEN Raise(s, TypeError)
    ELSE IF TreeSitterNode_len(child_node) = 1
    THEN IF TreeSitterNode_eq(child_node.children[1], "{")
            /\ TreeSitterNode_eq(child_node.children[Len(child_node.children)], "}")
         THEN Set1(s, "struct_arguments", parse_struct_arguments(child_node))
         ELSE Raise(s, AssertionError)
    ELSE ArgumentOther(s, child_node)

\* one iteration of the loop at lines 110-128
parse_inheritance_specifier_child(s, child_node) ==
    LET t == child_node.type IN
    CASE t = "call_argument" -> CallArgument(s, child_node)
      [] t \in ArgumentIgnored -> s
      [] OTHER -> ArgumentOther(s, child_node)

\* lines 103-108: the first child is the ancestor, the rest its arguments
parse_inheritance_specifier_init(n) ==
    IF n.type # "inheritance_specifier" THEN Raise(Running(None), AssertionError)
    ELSE IF Len(n.children) = 0 THEN Raise(Running(None), ValueError)
    ELSE Running([InheritanceSpecifier(n) EXCEPT
                      !.name = parse_user_defined_type(n.children[1])])

RECURSIVE parse_inheritance_specifier_loop(_, _, _)
parse_inheritance_specifier_loop(s, children, i) ==
    IF s.status # "running" \/ i > Len(children) THEN s
    ELSE parse_inheritance_specifier_loop(
             parse_inheritance_specifier_child(s, children[i]), children, i + 1)

\* the specifier built from the node (appended to the contract at line 130)
parse_inheritance_specifier(n) ==
    Finish(parse_inheritance_specifier_loop(
               parse_inheritance_specifier_init(n), n.children, 2))

(* ---- parse_contract_body, lines 132-198 ---- *)

BodyIgnored == {"{", "}"}

\* members whose parser is one of the `pass` stubs
BodyStubbed ==
    {"error_declaration", "struct_declaration", "enum_declaration",
     "event_definition", "user_defined_type_definition"}

BodyRecognized ==
    {"function_definition", "modifier_definition", "state_variable_declaration",
     "using_directive", "constructor_definition", "fallback_receive_definition"}
    \cup BodyStubbed

\* a nested call: its exception propagates, otherwise its value is appended
AppendResult(s, field, r) ==
    IF r.status = "error" THEN Raise(s, r.err) ELSE Append1(s, field, r.val)

\* lines 137-145: parse_functions, an isinstance assertion, an append
BodyCallable(s, child_node, kind, field) ==
    LET r == parse_functions(child_node) IN
    IF r.status = "error" THEN Raise(s, r.err)
    ELSE IF r.val.kind # kind THEN Raise(s, AssertionError)
    ELSE Append1(s, field, r.val)

\* lines 171-175 without the assertion of line 172
BodyConstructorOverwrite(s, child_node) ==
    LET r == parse_functions(child_node) IN
    IF r.status = "error" THEN Raise(s, r.err)
    ELSE IF r.val.kind # "Constructor" THEN Raise(s, AssertionError)
    ELSE Set1(s, "constructor", r.val)

\* lines 171-175
BodyConstructor(s, child_node) ==
    IF Truthy(s.val.constructor) THEN Raise(s, AssertionError)
    ELSE LET r == parse_functions(child_node) IN
         IF r.status = "error" THEN Raise(s, r.err)
         ELSE IF r.val.kind # "Constructor" THEN Raise(s, AssertionError)
         ELSE Set1(s, "constructor", r.val)

\* lines 177-188
BodyFallbackReceive(s, child_node) ==
    LET r == parse_functions(child_node) IN
    IF r.status = "error" THEN Raise(s, r.err)
    ELSE IF r.val.kind = "FallbackFunction"
    THEN IF Truthy(s.val.fallback_function) THEN Raise(s, AssertionError)
         ELSE Set1(s, "fallback_function", r.val)
    ELSE IF r.val.kind = "ReceiveFunction"
    THEN IF Truthy(s.val.receive_function) THEN Raise(s, AssertionError)
         ELSE Set1(s, "receive_function", r.val)
    ELSE s

\* lines 197-198
BodyOther(s, child_node) ==
    Raise(s, ParsingException("Unknown tree-sitter node type for contract member",
                              child_node.type))

\* one iteration of the loop at lines 135-198; s.val is the enclosing contract
parse_contract_body_child(s, child_node) ==
    LET t == child_node.type IN
    CASE t = "function_definition" -> BodyCallable(s, child_node, "Function", "functions")
      [] t = "modifier_definition" -> BodyCallable(s, child_node, "Modifier", "modifiers")
      [] t = "error_declaration" ->
            Append1(s, "custom_errors", parse_error_declaration(child_node))
      [] t = "state_variable_declaration" ->
            Append1(s, "state_variables", parse_state_variable_declaration(child_node))
      [] t = "struct_declaration" ->
            Append1(s, "structs", parse_struct_declaration(child_node))
      [] t = "enum_declaration" ->
            Append1(s, "enums", parse_enum_declaration(child_node))
      [] t = "event_definition" ->
            Append1(s, "events", parse_event_definition(child_node))
      [] t = "using_directive" ->
            AppendResult(s, "using_directives", parse_using_directive(child_node))
      [] t = "constructor_definition" -> BodyConstructor(s, child_node)
      [] t = "fallback_receive_definition" -> BodyFallbackReceive(s, child_node)
      [] t = "user_defined_type_definition" ->
            Append1(s, "type_definitions", parse_user_defined_type_definition(child_node))
      [] t \in BodyIgnored -> s
      [] OTHER -> BodyOther(s, child_node)

RECURSIVE parse_contract_body_loop(_, _, _)
parse_contract_body_loop(s, children, i) ==
    IF s.status # "running" \/ i > Len(children) THEN s
    ELSE parse_contract_body_loop(
             parse_contract_body_child(s, children[i]), children, i + 1)

\* the closure call parse_contract_body(child_node) on the contract in s
parse_contract_body(s, n) ==
    IF n.type # "contract_body" THEN Raise(s, AssertionError)
    ELSE parse_contract_body_loop(s, n.children, 1)

(* ---- the declaration's own loop, lines 200-221 ---- *)

ContractIgnored == {"contract", "interface", "library", "is", ","}

ContractRecognized == {"abstract", "identifier", "inheritance_specifier", "contract_body"}

\* lines 218-219
ContractOther(s, child_node) ==
    Raise(s, ParsingException("Unknown tree-sitter node for contract_declaration",
                              child_node.type))

\* lines 202-203
ContractAbstract(s, child_node) == Set1(s, "abstract", TRUE)

\* one iteration of the loop at lines 200-219
parse_contracts_child(s, child_node) ==
    LET t == child_node.type IN
    CASE t = "abstract" -> ContractAbstract(s, child_node)
      [] t = "identifier" ->
            IF Truthy(s.val.name) THEN Raise(s, AssertionError)
            ELSE Set1(s, "name", parse_identifier(child_node))
      [] t = "inheritance_specifier" ->
            AppendResult(s, "inheritance_specifiers",
                         parse_inheritance_specifier(child_node))
      [] t = "contract_body" -> parse_contract_body(s, child_node)
      [] t \in ContractIgnored -> s
      [] OTHER -> ContractOther(s, child_node)

RECURSIVE parse_contracts_loop(_, _, _)
parse_contracts_loop(s, children, i) ==
    IF s.status # "running" \/ i > Len(children) THEN s
    ELSE parse_contracts_loop(parse_contracts_child(s, children[i]), children, i + 1)

parse_contracts(n) ==
    IF n.type \notin ContractNodeTypes THEN Raise(Running(None), AssertionError)
    ELSE Finish(parse_contracts_loop(parse_contracts_init(n), n.children, 1))

(***************************************************************************)
(* DIRECTIVES: parse_pragma_directive, lines 301-325                       *)
(***************************************************************************)
Pragma(n) == [kind |-> "Pragma", src |-> n.text, name |-> None, value |-> None]

\* ''.join([x.text for x in value])
RECURSIVE JoinText(_, _)
JoinText(nodes, i) ==
    IF i > Len(nodes) THEN "" ELSE nodes[i].text \o JoinText(nodes, i + 1)

parse_pragma_directive(n) ==
    LET c == n.children IN
    IF n.type # "pragma_directive" THEN Raise(Running(None), AssertionError)
    ELSE IF Len(c) # 2 THEN Raise(Running(None), ValueError)
    ELSE IF c[1].type # "pragma" THEN Raise(Running(None), AssertionError)
    ELSE LET tc == c[2].children IN
         CASE c[2].type = "any_pragma_token" ->
                 IF Len(tc) # 2 THEN Raise(Running(None), ValueError)
                 ELSE Finish(Running([Pragma(n) EXCEPT
                                          !.name = parse_identifier(tc[1]),
                                          !.value = Str(tc[2].text)]))
           [] c[2].type = "solidity_pragma_token" ->
                 IF Len(tc) = 0 THEN Raise(Running(None), ValueError)
                 ELSE IF tc[1].type # "solidity" THEN Raise(Running(None), AssertionError)
                 ELSE Finish(Running([Pragma(n) EXCEPT
                                          !.name = parse_identifier(tc[1]),
                                          !.value = Str(JoinText(tc, 2))]))
           [] OTHER ->
                 Raise(Running(None),
                       ParsingException("Unknown pragma_token for pragma_directive",
                                        c[2].type))

(***************************************************************************)
(* DIRECTIVES: parse_import_directive, lines 224-298                       *)
(***************************************************************************)
EmptyDict == [k \in {} |-> None]

\* a class that defines __eq__ without __hash__ cannot be hashed, as Struct
\* (struct.py lines 26-29); an Identifier can when its class defines both
Hashable(k) == k.kind # "Struct" /\ (k.kind = "Identifier" => env.identifier_hash)

\* s.val[field][k] = v on a Python dict: the key is hashed first, and an
\* entry whose key equals k is replaced. Identifiers are equal by name
DictSet(s, field, k, v) ==
    IF ~Hashable(k) THEN Raise(s, TypeError)
    ELSE [s EXCEPT !.val[field] =
             [x \in DOMAIN @ \cup {k} |-> IF x = k THEN v ELSE @[x]]]

Import(n) ==
    [kind |-> "Import", src |-> n.text, import_path |-> None, alias |-> None,
     imported |-> <<>>, renaming |-> EmptyDict]

Types(nodes) == [i \in 1..Len(nodes) |-> nodes[i].type]

\* lines 288, 293, 296: the message ends with the text of the directive
ImportError(msg, n) == ParsingException(msg, n.text)

\* lines 272-275: `X`
ImportName(s, seg) == Append1(s, "imported", parse_identifier(seg[1]))

\* lines 280-285 with the entry stored under the alias instead of the name
ImportNameAliasSwapped(s, seg) ==
    LET import_identifier == parse_identifier(seg[1])
        alias_identifier == parse_identifier(seg[3])
    IN DictSet(Append1(s, "imported", import_identifier), "renaming",
               alias_identifier, import_identifier)

\* lines 256-261 and 280-285: `X as Y`; the name is appended, then the
\* alias is stored under the name
ImportNameAlias(s, seg) ==
    LET import_identifier == parse_identifier(seg[1])
        alias_identifier == parse_identifier(seg[3])
    IN DictSet(Append1(s, "imported", import_identifier), "renaming",
               import_identifier, alias_identifier)

\* lines 270-288: one import declaration, the slice [lo:hi] of the clause
ImportDeclaration(s, seg, node0) ==
    CASE Types(seg) = <<"identifier">> -> ImportName(s, seg)
      [] Types(seg) = <<"identifier", "as", "identifier">> -> ImportNameAlias(s, seg)
      [] OTHER ->
            Raise(s, ImportError("Unable to parse import_clause with multiple imports for import_directive", node0))

\* lines 267-290: lo and hi are the code's 0-based indices
RECURSIVE MultipleImport(_, _, _, _, _)
MultipleImport(s, import_declarations, lo, hi, node0) ==
    LET len == Len(import_declarations) IN
    IF s.status # "running" \/ hi > len THEN s
    ELSE IF hi = len \/ import_declarations[hi + 1].type = ","
    THEN MultipleImport(ImportDeclaration(s, SubSeq(import_declarations, lo + 1, hi), node0),
                        import_declarations, hi + 1, hi + 1, node0)
    ELSE MultipleImport(s, import_declarations, lo, hi + 1, node0)

\* lines 246-293: the import clause between `import` and `from`
ImportClause(s, import_clause, node0) ==
    LET t == Types(import_clause)
        n == Len(import_clause)
    IN
    CASE t = <<"*">> \/ t = <<"identifier">> -> ImportName(s, import_clause)
      [] t = <<"*", "as", "string">> \/ t = <<"identifier", "as", "string">> ->
            ImportNameAlias(s, import_clause)
      [] n >= 2 /\ t[1] = "{" /\ t[n] = "}" ->
            MultipleImport(s, SubSeq(import_clause, 2, n - 1), 0, 0, node0)
      [] OTHER ->
            Raise(s, ImportError("Unable to parse import_clause for import_directive", node0))

parse_import_directive(n) ==
    LET c == n.children
        t == Types(c)
        len == Len(c)
    IN
    IF n.type # "import_directive" THEN Raise(Running(None), AssertionError)
    ELSE
    CASE t = <<"import", "string">> ->
            Finish(Running([Import(n) EXCEPT !.import_path = Str(c[2].text)]))
      [] t = <<"import", "string", "as", "identifier">> ->
            Finish(Running([Import(n) EXCEPT !.import_path = Str(c[2].text),
                                             !.alias = Str(c[4].text)]))
      [] len >= 3 /\ t[1] = "import" /\ t[len - 1] = "from" /\ t[len] = "string" ->
            Finish(ImportClause(Running([Import(n) EXCEPT !.import_path = Str(c[len].text)]),
                                SubSeq(c, 2, len - 2), n))
      [] OTHER -> Raise(Running(None), ImportError("Unable to parse import_directive", n))

(***************************************************************************)
(* SOURCE UNIT: DeclarationParser.parse_source_unit, lines 24-86           *)
(***************************************************************************)
SourceUnit(n) ==
    [kind |-> "SourceUnit", src |-> n.text,
     pragma_directives |-> <<>>, import_directives |-> <<>>, contracts |-> <<>>,
     interfaces |-> <<>>, libraries |-> <<>>, custom_errors |-> <<>>,
     structs |-> <<>>, enums |-> <<>>, functions |-> <<>>, constants |-> <<>>,
     type_definitions |-> <<>>]

\* a local variable that no statement has assigned yet
Unbound == [kind |-> "Unbound"]

\* the traversal state also holds the function's local variable `contract`
parse_source_unit_init(n) ==
    [status |-> "running", err |-> NoErr, val |-> SourceUnit(n), contract |-> Unbound]

SourceUnitSkipped == {"ERROR"}

\* top-level children whose parser is one of the `pass` stubs
SourceUnitStubbed ==
    {"error_declaration", "struct_declaration", "enum_declaration",
     "user_defined_type_definition"}

SourceUnitRecognized ==
    {"pragma_directive", "import_directive", "contract_declaration",
     "interface_declaration", "library_declaration", "function_definition",
     "constant_variable_declaration"} \cup SourceUnitStubbed

\* lines 40-43
SourceUnitContract(s, child_node) ==
    LET r == parse_contracts(child_node) IN
    IF r.status = "error" THEN Raise(s, r.err)
    ELSE IF r.val.kind # "Contract" THEN Raise([s EXCEPT !.contract = r.val], AssertionError)
    ELSE [s EXCEPT !.contract = r.val, !.val.contracts = Append(@, r.val)]

\* lines 45-48: the value appended is the local `contract`, not `interface`
SourceUnitInterface(s, child_node) ==
    LET r == parse_contracts(child_node) IN
    IF r.status = "error" THEN Raise(s, r.err)
    ELSE IF r.val.kind # "Interface" THEN Raise(s, AssertionError)
    ELSE IF s.contract = Unbound THEN Raise(s, UnboundLocalError)
    ELSE Append1(s, "interfaces", s.contract)

\* lines 50-53
SourceUnitLibrary(s, child_node) ==
    LET r == parse_contracts(child_node) IN
    IF r.status = "error" THEN Raise(s, r.err)
    ELSE IF r.val.kind # "Library" THEN Raise(s, AssertionError)
    ELSE Append1(s, "libraries", r.val)

\* lines 68-70: DeclarationParser has no attribute parse_function_definition
SourceUnitFunction(s, child_node) == Raise(s, AttributeError)

\* lines 80-81 applied to every unrecognized tag
SourceUnitOtherSkipped(s, child_node) == s

\* lines 83-84
SourceUnitOther(s, child_node) ==
    Raise(s, ParsingException("Unknown tree-sitter node for source_unit",
                              child_node.type))

\* one iteration of the loop at lines 28-84
parse_source_unit_child(s, child_node) ==
    LET t == child_node.type IN
    CASE t = "pragma_directive" ->
            AppendResult(s, "pragma_directives", parse_pragma_directive(child_node))
      [] t = "import_directive" ->
            AppendResult(s, "import_directives", parse_import_directive(child_node))
      [] t = "contract_declaration" -> SourceUnitContract(s, child_node)
      [] t = "interface_declaration" -> SourceUnitInterface(s, child_node)
      [] t = "library_declaration" -> SourceUnitLibrary(s, child_node)
      [] t = "error_declaration" ->
            Append1(s, "custom_errors", parse_error_declaration(child_node))
      [] t = "struct_declaration" ->
            Append1(s, "structs", parse_struct_declaration(child_node))
      [] t = "enum_declaration" ->
            Append1(s, "enums", parse_enum_declaration(child_node))
      [] t = "function_definition" -> SourceUnitFunction(s, child_node)
      [] t = "constant_variable_declaration" ->
            Append1(s, "constants", parse_constant_variable_declaration(child_node))
      [] t = "user_defined_type_definition" ->
            Append1(s, "type_definitions", parse_user_defined_type_definition(child_node))
      [] t \in SourceUnitSkipped -> s
      [] OTHER -> SourceUnitOther(s, child_node)

RECURSIVE parse_source_unit_loop(_, _, _)
parse_source_unit_loop(s, children, i) ==
    IF s.status # "running" \/ i > Len(children) THEN s
    ELSE parse_source_unit_loop(parse_source_unit_child(s, children[i]), children, i + 1)

parse_source_unit(n) ==
    IF n.type # "source_file" THEN Raise(Running(None), AssertionError)
    ELSE Finish(parse_source_unit_loop(parse_source_unit_init(n), n.children, 1))

(***************************************************************************)
(* Struct, regast/core/declarations/struct.py                              *)
(***************************************************************************)
\* Struct.__init__, lines 8-16
Struct(name, members) == [kind |-> "Struct", name |-> name, members |-> members]

\* Python's list == list: same length and equal elements at each index
RECURSIVE ListEq(_, _)
ListEq(a, b) ==
    IF Len(a) # Len(b) THEN FALSE
    ELSE IF Len(a) = 0 THEN TRUE
    ELSE Head(a) = Head(b) /\ ListEq(Tail(a), Tail(b))

\* a comparison of the member lists that ignores their order
StructEqUnordered(a, b) ==
    IF b.kind = "Struct"
    THEN a.name = b.name
         /\ Len(a.members) = Len(b.members)
         /\ \A m \in {a.members[i] : i \in 1..Len(a.members)} \cup
                     {b.members[i] : i \in 1..Len(b.members)} :
               Cardinality({i \in 1..Len(a.members) : a.members[i] = m})
               = Cardinality({i \in 1..Len(b.members) : b.members[i] = m})
    ELSE FALSE

\* Struct.__eq__, lines 26-29
StructEq(a, b) ==
    IF b.kind = "Struct"
    THEN a.name = b.name /\ ListEq(a.members, b.members)
    ELSE FALSE

(***************************************************************************)
(* Input nodes.                                                            *)
(***************************************************************************)
RECURSIVE SeqsUpTo(_, _)
SeqsUpTo(S, n) ==
    IF n = 0 THEN {<<>>}
    ELSE LET shorter == SeqsUpTo(S, n - 1) IN
         shorter \cup {Append(q, x) : q \in {r \in shorter : Len(r) = n - 1}, x \in S}

\* a tag no context recognizes
SyntheticNode == Leaf("synthetic_node", "?")

(* ---- children of a function-family node ---- *)

FunctionChildrenCore ==
    {Leaf("identifier", "f"), Leaf("parameter", "uint256 a"),
     Leaf("visibility", "external"), Tok("public"),
     Leaf("state_mutability", "view"), Tok("virtual"),
     Leaf("function_body", "{ }"), SyntheticNode}

FunctionChildrenAll ==
    FunctionChildrenCore \cup
    {Leaf("modifier_invocation", "onlyOwner"), Tok("internal"), Tok("payable"),
     Leaf("override_specifier", "override"),
     Leaf("return_type_definition", "returns (uint256)"),
     Tok("("), Tok(")"), Tok(",")}

\* the node types with the keyword token that opens each
FunctionKeywords ==
    {<<"function_definition", "function">>,
     <<"constructor_definition", "constructor">>,
     <<"modifier_definition", "modifier">>,
     <<"fallback_receive_definition", "fallback">>,
     <<"fallback_receive_definition", "receive">>}

FunctionNode(kw, children) == Node(kw[1], <<Tok(kw[2])>> \o children, kw[2])

FunctionNodes ==
    {FunctionNode(kw, c) :
        kw \in FunctionKeywords,
        c \in SeqsUpTo(FunctionChildrenCore, MaxFunctionChildren)
              \cup SeqsUpTo(FunctionChildrenAll, MaxFunctionChildren - 1)}

(* ---- members of a contract body ---- *)

ConstructorA ==
    Node("constructor_definition",
         <<Tok("constructor"), Tok("("), Tok(")"), Leaf("function_body", "{ }")>>,
         "constructor A")

ConstructorB ==
    Node("constructor_definition",
         <<Tok("constructor"), Tok("("), Leaf("parameter", "uint256 a"), Tok(")"),
           Leaf("function_body", "{ }")>>,
         "constructor B")

FallbackDefinition ==
    Node("fallback_receive_definition",
         <<Tok("fallback"), Tok("("), Tok(")"), Leaf("visibility", "external"),
           Leaf("function_body", "{ }")>>,
         "fallback")

ReceiveDefinition ==
    Node("fallback_receive_definition",
         <<Tok("receive"), Tok("("), Tok(")"), Leaf("visibility", "external"),
           Tok("payable"), Leaf("function_body", "{ }")>>,
         "receive")

FunctionDefinition ==
    Node("function_definition",
         <<Tok("function"), Leaf("identifier", "f"), Tok("("), Tok(")"),
           Tok("public"), Leaf("function_body", "{ }")>>,
         "function f")

ModifierDefinition ==
    Node("modifier_definition",
         <<Tok("modifier"), Leaf("identifier", "m"), Leaf("function_body", "{ }")>>,
         "modifier m")

\* a function with a child that parse_functions does not recognize
FunctionWithSynthetic ==
    Node("function_definition",
         <<Tok("function"), Leaf("identifier", "g"), SyntheticNode>>, "function g")

UsingDirectiveNode ==
    Node("using_directive",
         <<Tok("using"), Leaf("type_alias", "L"), Tok("for"),
           Leaf("any_source_type", "*")>>,
         "using L for *")

StructDeclaration == Leaf("struct_declaration", "struct P")

BodyMembersCore ==
    {ConstructorA, ConstructorB, FallbackDefinition, ReceiveDefinition,
     FunctionDefinition, StructDeclaration, SyntheticNode}

BodyMembersAll ==
    BodyMembersCore \cup
    {ModifierDefinition, FunctionWithSynthetic, UsingDirectiveNode,
     Leaf("error_declaration", "error E"), Leaf("enum_declaration", "enum N"),
     Leaf("event_definition", "event V"),
     Leaf("user_defined_type_definition", "type T"),
     Leaf("state_variable_declaration", "uint256 x")}

ContractBody(members) ==
    Node("contract_body", <<Tok("{")>> \o members \o <<Tok("}")>>, "{ }")

ContractBodies ==
    {ContractBody(m) :
        m \in SeqsUpTo(BodyMembersCore, MaxBodyMembers)
              \cup SeqsUpTo(BodyMembersAll, MaxBodyMembers - 1)}

(* ---- arguments of an inheritance specifier ---- *)

PositionalArgument(text) ==
    Node("call_argument", <<Leaf("number_literal", text)>>, text)

\* brace-delimited field initializers: {x: 1}
StructArgument ==
    Node("call_argument",
         <<Tok("{"), Leaf("identifier", "x"), Tok(":"), Leaf("number_literal", "1"),
           Tok("}")>>,
         "{x: 1}")

ArgumentNodes ==
    {PositionalArgument("1"), PositionalArgument("2"), StructArgument,
     Tok("("), Tok(")"), Tok(","), SyntheticNode}

InheritanceSpecifierNode(arguments) ==
    Node("inheritance_specifier",
         <<Leaf("user_defined_type", "B")>> \o arguments, "B")

InheritanceSpecifierNodes ==
    {InheritanceSpecifierNode(a) : a \in SeqsUpTo(ArgumentNodes, MaxArguments)}

(* ---- contract, interface and library declarations ---- *)

ContractKeywords ==
    {<<"contract_declaration", "contract">>,
     <<"interface_declaration", "interface">>,
     <<"library_declaration", "library">>}

ContractNode(kw, children, name) ==
    Node(kw[1], <<Tok(kw[2])>> \o children, kw[2] \o " " \o name)

ContractChildren ==
    {Tok("abstract"), Leaf("identifier", "C"), Tok("is"), Tok(","),
     InheritanceSpecifierNode(<<>>), ContractBody(<<>>), SyntheticNode}

ContractNodes ==
    {ContractNode(kw, c, "X") :
        kw \in ContractKeywords, c \in SeqsUpTo(ContractChildren, MaxContractChildren)}
    \cup {ContractNode(kw, <<Leaf("identifier", "C"), b>>, "C") :
            kw \in ContractKeywords, b \in ContractBodies}
    \cup {ContractNode(kw, <<Leaf("identifier", "C"), Tok("is"), i, ContractBody(<<>>)>>, "C") :
            kw \in ContractKeywords, i \in InheritanceSpecifierNodes}

(* ---- top-level children of a source file ---- *)

SimpleContract(kw, name) ==
    ContractNode(kw, <<Leaf("identifier", name), ContractBody(<<>>)>>, name)

PragmaSolidity ==
    Node("pragma_directive",
         <<Tok("pragma"),
           Node("solidity_pragma_token",
                <<Tok("solidity"), Leaf("solidity_version_comparison_operator", "^"),
                  Leaf("solidity_version", "0.8.0")>>,
                "solidity ^0.8.0")>>,
         "pragma solidity ^0.8.0")

PragmaAbicoder ==
    Node("pragma_directive",
         <<Tok("pragma"),
           Node("any_pragma_token",
                <<Leaf("identifier", "abicoder"), Leaf("pragma_value", "v2")>>,
                "abicoder v2")>>,
         "pragma abicoder v2")

ImportSource ==
    Node("import_directive", <<Tok("import"), Leaf("string", "a.sol")>>, "import a.sol")

TopLevelCore ==
    {SimpleContract(<<"contract_declaration", "contract">>, "C"),
     SimpleContract(<<"interface_declaration", "interface">>, "I"),
     SimpleContract(<<"library_declaration", "library">>, "L"),
     StructDeclaration, FunctionDefinition, PragmaSolidity,
     Leaf("ERROR", "@"), SyntheticNode}

TopLevelAll ==
    TopLevelCore \cup
    {SimpleContract(<<"contract_declaration", "contract">>, "D"),
     ContractNode(<<"contract_declaration", "contract">>,
                  <<Leaf("identifier", "U"), ContractBody(<<SyntheticNode>>)>>, "U"),
     PragmaAbicoder, ImportSource,
     Leaf("error_declaration", "error E"), Leaf("enum_declaration", "enum N"),
     Leaf("user_defined_type_definition", "type T"),
     Leaf("constant_variable_declaration", "uint256 constant K = 1")}

SourceFileNodes ==
    {Node("source_file", c, "a.sol") :
        c \in SeqsUpTo(TopLevelCore, MaxTopLevel)
              \cup SeqsUpTo(TopLevelAll, MaxTopLevel - 1)}

(***************************************************************************)
(* The state machine: one parser runs on one node, one child per step.     *)
(***************************************************************************)
NoFrame == [kind |-> "none"]

Idle == /\ frame = NoFrame /\ self = None /\ other = None /\ env \in Environments

InitSourceUnit ==
    /\ ctx = "source_unit"
    /\ node \in SourceFileNodes
    /\ pos = 1
    /\ st = parse_source_unit_init(node)
    /\ Idle

InitContracts ==
    /\ ctx = "contracts"
    /\ node \in ContractNodes
    /\ pos = 1
    /\ st = parse_contracts_init(node)
    /\ Idle

InitFunctions ==
    /\ ctx = "functions"
    /\ node \in FunctionNodes
    /\ pos = 1
    /\ st = parse_functions_init(node)
    /\ Idle

Init == InitSourceUnit \/ InitContracts \/ InitFunctions

\* the loop is at a child and no closure is running
AtChild(c) ==
    /\ ctx = c
    /\ st.status = "running"
    /\ frame = NoFrame
    /\ pos <= Len(node.children)

\* the loop has run out of children: the parser returns the entity
Return(c) ==
    /\ ctx = c
    /\ st.status = "running"
    /\ frame = NoFrame
    /\ pos > Len(node.children)
    /\ st' = Finish(st)
    /\ UNCHANGED <<env, ctx, node, pos, frame, self, other>>

\* the loop moves on unless the iteration raised
Advance == pos' = IF st'.status = "running" THEN pos + 1 ELSE pos

SourceUnitChild ==
    /\ AtChild("source_unit")
    /\ st' = parse_source_unit_child(st, node.children[pos])
    /\ Advance
    /\ UNCHANGED <<env, ctx, node, frame, self, other>>

SourceUnitReturn == Return("source_unit")

FunctionsChild ==
    /\ AtChild("functions")
    /\ st' = parse_functions_child(st, node.children[pos])
    /\ Advance
    /\ UNCHANGED <<env, ctx, node, frame, self, other>>

FunctionsReturn == Return("functions")

\* a child of the declaration that is handled without entering a closure
ContractsChild ==
    /\ AtChild("contracts")
    /\ node.children[pos].type \notin {"inheritance_specifier", "contract_body"}
    /\ st' = parse_contracts_child(st, node.children[pos])
    /\ Advance
    /\ UNCHANGED <<env, ctx, node, frame, self, other>>

\* line 210: parse_inheritance_specifier(child_node) is entered (lines 103-108)
InheritanceSpecifierEnter ==
    /\ AtChild("contracts")
    /\ node.children[pos].type = "inheritance_specifier"
    /\ LET i == parse_inheritance_specifier_init(node.children[pos]) IN
       IF i.status = "error"
       THEN st' = Raise(st, i.err) /\ frame' = frame
       ELSE st' = st
            /\ frame' = [kind |-> "inheritance_specifier", node |-> node.children[pos],
                         pos |-> 2, st |-> i]
    /\ UNCHANGED <<env, ctx, node, pos, self, other>>

InFrame(k) ==
    /\ ctx = "contracts"
    /\ st.status = "running"
    /\ frame.kind = k

\* one iteration of the loop over the ancestor's arguments
InheritanceSpecifierChild ==
    /\ InFrame("inheritance_specifier")
    /\ frame.pos <= Len(frame.node.children)
    /\ LET i == parse_inheritance_specifier_child(frame.st, frame.node.children[frame.pos]) IN
       /\ frame' = [frame EXCEPT !.st = i,
                                 !.pos = IF i.status = "running" THEN @ + 1 ELSE @]
       /\ st' = IF i.status = "error" THEN Raise(st, i.err) ELSE st
    /\ UNCHANGED <<env, ctx, node, pos, self, other>>

\* line 130: the specifier is appended to the contract
InheritanceSpecifierReturn ==
    /\ InFrame("inheritance_specifier")
    /\ frame.pos > Len(frame.node.children)
    /\ st' = Append1(st, "inheritance_specifiers", frame.st.val)
    /\ frame' = NoFrame
    /\ pos' = pos + 1
    /\ UNCHANGED <<env, ctx, node, self, other>>

\* line 213: parse_contract_body(child_node) is entered
ContractBodyEnter ==
    /\ AtChild("contracts")
    /\ node.children[pos].type = "contract_body"
    /\ frame' = [kind |-> "contract_body", node |-> node.children[pos],
                 pos |-> 1, st |-> Running(None)]
    /\ UNCHANGED <<env, ctx, node, pos, st, self, other>>

\* one iteration of the loop over the members; it works on the contract itself
ContractBodyChild ==
    /\ InFrame("contract_body")
    /\ frame.pos <= Len(frame.node.children)
    /\ st' = parse_contract_body_child(st, frame.node.children[frame.pos])
    /\ frame' = [frame EXCEPT !.pos = IF st'.status = "running" THEN @ + 1 ELSE @]
    /\ UNCHANGED <<env, ctx, node, pos, self, other>>

ContractBodyReturn ==
    /\ InFrame("contract_body")
    /\ frame.pos > Len(frame.node.children)
    /\ frame' = NoFrame
    /\ pos' = pos + 1
    /\ UNCHANGED <<env, ctx, node, st, self, other>>

ContractsReturn == Return("contracts")

Next ==
    \/ SourceUnitChild
    \/ SourceUnitReturn
    \/ ContractsChild
    \/ InheritanceSpecifierEnter
    \/ InheritanceSpecifierChild
    \/ InheritanceSpecifierReturn
    \/ ContractBodyEnter
    \/ ContractBodyChild
    \/ ContractBodyReturn
    \/ ContractsReturn
    \/ FunctionsChild
    \/ FunctionsReturn

Spec == Init /\ [][Next]_vars

\* the stepwise run of a parser ends where the parser's own loop ends
Whole(n) ==
    CASE ctx = "source_unit" -> parse_source_unit(n)
      [] ctx = "contracts" -> parse_contracts(n)
      [] ctx = "functions" -> parse_functions(n)

Finished == st.status \in {"ok", "error"}

StepwiseAgrees == Finished => st = Whole(node)

(***************************************************************************)
(* parse_import_directive and Struct.__eq__ run as single calls.           *)
(***************************************************************************)
ImportTokens ==
    {Leaf("string", "a.sol"), Tok("as"), Leaf("identifier", "X"),
     Leaf("identifier", "Y"), Tok("*"), Tok("{"), Tok("}"), Tok(","), Tok("from")}

ImportedNames == {"X", "Z"}

ImportAliases == {"Y", "W"}

\* one import declaration: `X` or `X as Y`
ImportDeclarations ==
    {<<Leaf("identifier", x)>> : x \in ImportedNames}
    \cup {<<Leaf("identifier", x), Tok("as"), Leaf("identifier", y)>> :
            x \in ImportedNames, y \in ImportAliases}

RECURSIVE CommaJoin(_, _)
CommaJoin(ds, i) ==
    IF i > Len(ds) THEN <<>>
    ELSE IF i = Len(ds) THEN ds[i]
    ELSE ds[i] \o <<Tok(",")>> \o CommaJoin(ds, i + 1)

\* import {d1, ..., dn} from "a.sol"
MultipleImportNode(ds) ==
    Node("import_directive",
         <<Tok("import"), Tok("{")>> \o CommaJoin(ds, 1)
             \o <<Tok("}"), Tok("from"), Leaf("string", "a.sol")>>,
         "import { } from a.sol")

MultipleImportNodes ==
    {MultipleImportNode(ds) : ds \in SeqsUpTo(ImportDeclarations, MaxImports)}

ImportNodes ==
    MultipleImportNodes
    \cup {Node("import_directive", <<Tok("import")>> \o c, "import") :
            c \in SeqsUpTo(ImportTokens, MaxImportTokens)}

InitImport ==
    /\ ctx = "import_directive"
    /\ node \in ImportNodes
    /\ pos = 1
    /\ st = Running(None)
    /\ Idle

ImportDirectiveCall ==
    /\ ctx = "import_directive"
    /\ st.status = "running"
    /\ st' = parse_import_directive(node)
    /\ UNCHANGED <<env, ctx, node, pos, frame, self, other>>

NextImport == ImportDirectiveCall

SpecImport == InitImport /\ [][NextImport]_vars

StructMember(name, type) == [kind |-> "StructMember", name |-> name, type |-> type]

StructMembers ==
    {StructMember("x", "uint256"), StructMember("y", "uint256"),
     StructMember("x", "address")}

Structs ==
    {Struct(parse_identifier(Leaf("identifier", n)), m) :
        n \in {"P", "Q"}, m \in SeqsUpTo(StructMembers, MaxMembers)}

\* values that are not instances of Struct
NonStructs == {None, parse_identifier(Leaf("identifier", "P"))}

InitStruct ==
    /\ ctx = "struct_eq"
    /\ node = None
    /\ pos = 1
    /\ st = Running(None)
    /\ frame = NoFrame
    /\ env \in Environments
    /\ self \in Structs
    /\ other \in Structs \cup NonStructs

\* self == other
StructEqCall ==
    /\ ctx = "struct_eq"
    /\ st.status = "running"
    /\ st' = Finish(Running([kind |-> "bool", value |-> StructEq(self, other)]))
    /\ UNCHANGED <<env, ctx, node, pos, frame, self, other>>

NextStruct == StructEqCall

SpecStruct == InitStruct /\ [][NextStruct]_vars

(***************************************************************************)
(* Properties.                                                             *)
(***************************************************************************)
\* the children of the input node with the given tag, in source order
ChildrenOf(tag) == SelectSeq(node.children, LAMBDA c : c.type = tag)

\* the entities lowered from those children, in source order
Lowered(tag, F(_)) ==
    LET cs == ChildrenOf(tag) IN [i \in 1..Len(cs) |-> F(cs[i])]

ReturnedSourceUnit == ctx = "source_unit" /\ st.status = "ok"

\* C1: when parse_source_unit returns, every bucket of the SourceUnit holds
\* exactly the entities lowered from the children of the bucket's tag, one per
\* child and in source order.
C1_BucketsMatchChildren ==
    ReturnedSourceUnit =>
        /\ st.val.pragma_directives
             = Lowered("pragma_directive", LAMBDA c : parse_pragma_directive(c).val)
        /\ st.val.import_directives
             = Lowered("import_directive", LAMBDA c : parse_import_directive(c).val)
        /\ st.val.contracts
             = Lowered("contract_declaration", LAMBDA c : parse_contracts(c).val)
        /\ st.val.interfaces
             = Lowered("interface_declaration", LAMBDA c : parse_contracts(c).val)
        /\ st.val.libraries
             = Lowered("library_declaration", LAMBDA c : parse_contracts(c).val)
        /\ Len(st.val.custom_errors) = Len(ChildrenOf("error_declaration"))
        /\ Len(st.val.structs) = Len(ChildrenOf("struct_declaration"))
        /\ Len(st.val.enums) = Len(ChildrenOf("enum_declaration"))
        /\ Len(st.val.functions) = Len(ChildrenOf("function_definition"))
        /\ st.val.constants
             = Lowered("constant_variable_declaration",
                       LAMBDA c : parse_constant_variable_declaration(c))
        /\ Len(st.val.type_definitions)
             = Len(ChildrenOf("user_defined_type_definition"))

(* ---- fail-closed dispatch ---- *)

\* the tags each lowering context dispatches on: the case labels of its match
Dispatched(context) ==
    CASE context = "source_unit" -> SourceUnitRecognized \cup SourceUnitSkipped
      [] context = "contracts" -> ContractRecognized \cup ContractIgnored
      [] context = "contract_body" -> BodyRecognized \cup BodyIgnored
      [] context = "inheritance_specifier" -> ArgumentRecognized \cup ArgumentIgnored
      [] context = "functions" -> FunctionRecognized \cup FunctionIgnored

Unrecognized(context, tag) == tag \notin Dispatched(context)

\* the first child a context's loop dispatches on
FirstChild(context) == IF context = "inheritance_specifier" THEN 2 ELSE 1

\* the context that lowers a child with this tag, "none" for a leaf
SubContext(context, tag) ==
    CASE context = "source_unit" /\ tag \in ContractNodeTypes -> "contracts"
      [] context = "contracts" /\ tag \in {"inheritance_specifier", "contract_body"} -> tag
      [] context = "contract_body" /\ tag \in FunctionNodeTypes -> "functions"
      [] OTHER -> "none"

\* some child, at any depth the lowering descends to, has an unrecognized tag
RECURSIVE HasUnrecognized(_, _)
HasUnrecognized(context, n) ==
    \E i \in FirstChild(context)..Len(n.children) :
        LET c == n.children[i] IN
        \/ Unrecognized(context, c.type)
        \/ /\ SubContext(context, c.type) # "none"
           /\ HasUnrecognized(SubContext(context, c.type), c)

\* the loops that are running: the parser's own and, inside it, a closure's
Loops ==
    {[context |-> ctx, children |-> node.children, at |-> pos]}
    \cup (IF frame = NoFrame THEN {}
          ELSE {[context |-> frame.kind, children |-> frame.node.children,
                 at |-> frame.pos]})

LoweringContexts == {"source_unit", "contracts", "functions"}

\* C2: in every lowering context a child whose tag the context does not
\* dispatch on stops the lowering at that child with a ParsingException that
\* names the tag: no loop ever moves past such a child, and no entity is
\* returned for a node that holds one.
C2_FailClosed ==
    ctx \in LoweringContexts =>
        /\ \A l \in Loops :
              /\ \A i \in FirstChild(l.context)..(l.at - 1) :
                    ~Unrecognized(l.context, l.children[i].type)
              /\ (l.at <= Len(l.children)
                  /\ Unrecognized(l.context, l.children[l.at].type))
                 => /\ st.status # "ok"
                    /\ st.status = "error"
                       => /\ st.err.kind = "ParsingException"
                          /\ st.err.tag = l.children[l.at].type
        /\ st.status = "ok" =>
              /\ frame = NoFrame
              /\ pos > Len(node.children)
              /\ ~HasUnrecognized(ctx, node)

\* a source file stopped at an unrecognized child that has children before
\* and after it
C2_Witness ==
    /\ ctx = "source_unit"
    /\ st.status = "error"
    /\ pos > 1
    /\ pos < Len(node.children)
    /\ Unrecognized("source_unit", node.children[pos].type)
    /\ st.err.kind = "ParsingException"
    /\ st.err.tag = node.children[pos].type

(* ---- the constructor slot ---- *)

RECURSIVE Flatten(_, _)
Flatten(ss, i) == IF i > Len(ss) THEN <<>> ELSE ss[i].children \o Flatten(ss, i + 1)

\* the constructor_definition members of the declaration's bodies, in order
Constructors(n) ==
    SelectSeq(Flatten(SelectSeq(n.children, LAMBDA c : c.type = "contract_body"), 1),
              LAMBDA c : c.type = "constructor_definition")

\* the loop over the body's members is at a constructor that is not the first
AtLaterConstructor ==
    /\ frame.kind = "contract_body"
    /\ frame.pos <= Len(frame.node.children)
    /\ frame.node.children[frame.pos].type = "constructor_definition"
    /\ \E i \in 1..(frame.pos - 1) :
          frame.node.children[i].type = "constructor_definition"

\* C3: a contract body with two constructor_definition members never yields a
\* ContractLike; reaching the second one raises the assertion failure, and the
\* constructor slot only ever holds the first constructor.
C3_SingleConstructor ==
    ctx = "contracts" =>
        /\ Len(Constructors(node)) >= 2 => st.status # "ok"
        /\ (AtLaterConstructor /\ st.status = "error") => st.err = AssertionError
        /\ Truthy(st.val.constructor)
           => st.val.constructor = parse_functions(Constructors(node)[1]).val

\* the second constructor, different from the first, was refused
C3_Witness ==
    /\ ctx = "contracts"
    /\ AtLaterConstructor
    /\ st.status = "error"
    /\ st.err = AssertionError
    /\ Len(Constructors(node)) >= 2
    /\ Constructors(node)[1] # frame.node.children[frame.pos]
    /\ st.val.constructor = parse_functions(Constructors(node)[1]).val

(* ---- fallback and receive ---- *)

\* C4: parse_functions on a fallback_receive_definition returns a
\* ReceiveFunction when the node's first child is the `receive` token and a
\* FallbackFunction when it is the `fallback` token, in both cases unnamed.
C4_ReceiveOrFallback ==
    (ctx = "functions" /\ node.type = "fallback_receive_definition"
     /\ st.status = "ok")
    => /\ node.children[1].type = "receive" => st.val.kind = "ReceiveFunction"
       /\ node.children[1].type = "fallback" => st.val.kind = "FallbackFunction"
       /\ st.val.name = None

(* ---- inheritance specifiers ---- *)

\* a call_argument that holds brace-delimited field initializers
IsStructArgument(c) ==
    /\ c.type = "call_argument"
    /\ Len(c.children) >= 2
    /\ c.children[1].type = "{"
    /\ c.children[Len(c.children)].type = "}"

\* the specifier B({x: 1}): the ancestor, then ( {..} )
IsStructSpecifier(n) ==
    /\ Len(n.children) = 4
    /\ n.children[2].type = "("
    /\ IsStructArgument(n.children[3])
    /\ n.children[4].type = ")"

\* C5: an inheritance specifier whose call argument is brace-delimited field
\* initializers is lowered without error to a specifier with the struct
\* arguments set and no positional argument; no specifier has both forms.
C5_StructArguments ==
    (ctx = "contracts" /\ frame.kind = "inheritance_specifier") =>
        /\ IsStructSpecifier(frame.node) =>
              /\ frame.st.status # "error"
              /\ frame.pos > Len(frame.node.children) =>
                    /\ frame.st.val.struct_arguments
                         = parse_struct_arguments(frame.node.children[3])
                    /\ frame.st.val.arguments = <<>>
        /\ frame.st.status = "running" =>
              ~(frame.st.val.arguments # <<>>
                /\ Truthy(frame.st.val.struct_arguments))

(* ---- the abstract flag ---- *)

HasChild(n, tag) == \E i \in 1..Len(n.children) : n.children[i].type = tag

\* C6: an `abstract` child is accepted on a contract only: an interface or a
\* library declaration that has one is rejected with an assertion failure, and
\* no Interface or Library is returned with the flag set.
C6_AbstractOnlyOnContract ==
    (ctx = "contracts"
     /\ node.type \in {"interface_declaration", "library_declaration"})
    => /\ HasChild(node, "abstract") => st.status # "ok"
       /\ (st.status = "error" /\ node.children[pos].type = "abstract")
          => st.err = AssertionError
       /\ st.status = "ok" => ~st.val.abstract

(* ---- constructs whose lowering is not implemented ---- *)

InSeq(q, e) == \E i \in 1..Len(q) : q[i] = e

SourceUnitBuckets ==
    {"pragma_directives", "import_directives", "contracts", "interfaces",
     "libraries", "custom_errors", "structs", "enums", "functions", "constants",
     "type_definitions"}

ContractBuckets ==
    {"inheritance_specifiers", "functions", "modifiers", "custom_errors",
     "state_variables", "structs", "enums", "events", "using_directives",
     "type_definitions"}

\* C7: a child whose lowering is not implemented raises an explicit error: no
\* bucket of a SourceUnit or of a ContractLike ever holds a null entity, and
\* the traversal of a callable never moves past a modifier invocation, an
\* override specifier, a return-type definition or a function body.
C7_UnsupportedIsRaised ==
    /\ ctx = "source_unit" => \A b \in SourceUnitBuckets : ~InSeq(st.val[b], None)
    /\ ctx = "contracts" => \A b \in ContractBuckets : ~InSeq(st.val[b], None)
    /\ ctx = "functions" =>
          \A i \in 1..(pos - 1) : node.children[i].type \notin FunctionStubbed

(* ---- the fallback and receive slots ---- *)

\* the declaration is `contract C { ... }` with exactly these members
BodyIs(members) ==
    /\ ctx = "contracts"
    /\ Len(node.children) = 3
    /\ node.children[3] = ContractBody(members)

\* C10: a body with one fallback definition and one receive definition, in
\* either order, lowers without error and fills the two slots, each with its
\* own entity.
C10_IndependentSlots ==
    (BodyIs(<<FallbackDefinition, ReceiveDefinition>>)
     \/ BodyIs(<<ReceiveDefinition, FallbackDefinition>>))
    => /\ st.status # "error"
       /\ st.status = "ok" =>
             /\ st.val.fallback_function = parse_functions(FallbackDefinition).val
             /\ st.val.receive_function = parse_functions(ReceiveDefinition).val
             /\ st.val.receive_function.kind = "ReceiveFunction"

(* ---- multiple imports ---- *)

\* the call has returned or raised
Called(c) == ctx = c /\ st.status # "running"

\* import {d1, ..., dn} from "p" with n >= 1 has been lowered
MultipleImportCalled ==
    /\ Called("import_directive")
    /\ node \in MultipleImportNodes
    /\ Len(node.children) > 5

\* the tokens between the braces
Items == SubSeq(node.children, 3, Len(node.children) - 3)

\* the positions in Items of the imported names X: one opens each declaration
NamePositions ==
    SelectSeq([i \in 1..Len(Items) |-> i],
              LAMBDA i : Items[i].type = "identifier"
                         /\ (i = 1 \/ Items[i - 1].type = ","))

DeclaredName(k) == parse_identifier(Items[NamePositions[k]])

\* the declaration is `X as Y`
HasAlias(k) ==
    /\ NamePositions[k] + 2 <= Len(Items)
    /\ Items[NamePositions[k] + 1].type = "as"

DeclaredAlias(k) == parse_identifier(Items[NamePositions[k] + 2])

Declarations == 1..Len(NamePositions)

ImportPathAndNames ==
    /\ st.status = "ok"
    /\ st.val.import_path = Str(node.children[Len(node.children)].text)
    /\ st.val.imported = [k \in Declarations |-> DeclaredName(k)]
    /\ DOMAIN st.val.renaming = {DeclaredName(k) : k \in {d \in Declarations : HasAlias(d)}}

LastAliasOfName(k) ==
    \A j \in Declarations :
        (j > k /\ HasAlias(j)) => DeclaredName(j) # DeclaredName(k)

\* the renaming map can take the names of the list as keys: Identifier can
\* be hashed, or no declaration of the list carries an alias
NamesCanBeKeys == env.identifier_hash \/ \A k \in Declarations : ~HasAlias(k)

SameOrderedMembers(a, b) ==
    /\ Len(a.members) = Len(b.members)
    /\ \A i \in 1..Len(a.members) : a.members[i] = b.members[i]

\* b's members are a's members in another order
Reordered(a, b) ==
    /\ Len(a.members) = Len(b.members)
    /\ \E f \in [1..Len(a.members) -> 1..Len(a.members)] :
          /\ \A i, j \in 1..Len(a.members) : i # j => f[i] # f[j]
          /\ \A i \in 1..Len(a.members) : b.members[i] = a.members[f[i]]
    /\ a.members # b.members

\* C9: self == other is true exactly when other is a Struct with an equal
\* name and equal members at every index; the same members in another order
\* make the structs unequal, and a Struct never equals a value of another type.
C9_StructuralEquality ==
    Called("struct_eq") =>
        /\ st.val.value
             <=> (other.kind = "Struct" /\ self.name = other.name
                  /\ SameOrderedMembers(self, other))
        /\ (other.kind = "Struct" /\ self.name = other.name /\ Reordered(self, other))
           => ~st.val.value
        /\ other.kind # "Struct" => ~st.val.value

\* two structs with one name and the same two members, swapped, compared unequal
C9_Witness ==
    /\ Called("struct_eq")
    /\ other.kind = "Struct"
    /\ self.name = other.name
    /\ Len(self.members) >= 2
    /\ Reordered(self, other)
    /\ ~st.val.value

(* ---- visibility, mutability and virtual of a callable ---- *)

VisibilityTags == {"visibility", "internal", "public"}

MutabilityTags == {"state_mutability", "payable"}

\* the children of the callable with one of the tags, in source order
TaggedChildren(tags) == SelectSeq(node.children, LAMBDA c : c.type \in tags)

\* the loop is at a child with one of the tags that is not the first such child
AtLaterChild(tags) ==
    /\ pos <= Len(node.children)
    /\ node.children[pos].type \in tags
    /\ \E i \in 1..(pos - 1) : node.children[i].type \in tags

\* C11: in one traversal of a callable a second visibility child, or a second
\* mutability child, raises the assertion failure and the value set by the
\* first child is never replaced; `virtual` children never raise, however
\* many there are, and the flag is true once one has been seen.
C11_SetOnce ==
    ctx = "functions" =>
        /\ Len(TaggedChildren(VisibilityTags)) >= 2 => st.status # "ok"
        /\ (AtLaterChild(VisibilityTags) /\ st.status = "error")
           => st.err = AssertionError
        /\ Truthy(st.val.visibility)
           => st.val.visibility
                = EnumValue("Visibility", TaggedChildren(VisibilityTags)[1].text)
        /\ Len(TaggedChildren(MutabilityTags)) >= 2 => st.status # "ok"
        /\ (AtLaterChild(MutabilityTags) /\ st.status = "error")
           => st.err = AssertionError
        /\ Truthy(st.val.mutability)
           => st.val.mutability
                = EnumValue("StateMutability", TaggedChildren(MutabilityTags)[1].text)
        /\ (st.status = "error" /\ pos <= Len(node.children))
           => node.children[pos].type # "virtual"
        /\ (\E i \in 1..(pos - 1) : node.children[i].type = "virtual")
           => st.val.virtual

\* a second visibility child with another value was refused and the first
\* value is still the one set
C11_Witness ==
    /\ ctx = "functions"
    /\ AtLaterChild(VisibilityTags)
    /\ st.status = "error"
    /\ st.err = AssertionError
    /\ node.children[pos].text # TaggedChildren(VisibilityTags)[1].text
    /\ st.val.visibility
         = EnumValue("Visibility", TaggedChildren(VisibilityTags)[1].text)

====
